---- MODULE Spec2Model ----
(***************************************************************************)
(* A model of the itinerary back end: the Chatbot conversation and its     *)
(* trip-detail extraction (ollam.py), the geocoder and generate_itinerary  *)
(* (ollam.py), the Reddit digest (reddit_scraper.py) and the FastAPI       *)
(* endpoint that serves itinerary requests (server.py).                    *)
(*                                                                         *)
(* External services (the ollama model, the Geoapify HTTP service, the     *)
(* Reddit search) answer nondeterministically; every answer is drawn from  *)
(* a small set.  A Python exception is a record [type, msg]; a call's      *)
(* outcome is [kind |-> "return", value] or [kind |-> "raise", exc].       *)
(***************************************************************************)
EXTENDS Integers, Sequences, FiniteSets, TLC

VARIABLES
    \* ---- Chatbot (ollam.py 34-89)
    history,        \* self.history: sequence of [role, content]
    chatRequests,   \* every ollama.chat request made by Chatbot.chat: the messages sent
    chatResult,     \* outcome of the latest Chatbot.chat call, with the history before it
    extractResult,  \* outcome of the latest extract_trip_details call, with its requests
    \* ---- TripDetails parsing on its own (ollam.py 29-32, 78-89)
    tdResponse,     \* the model response handed to the try block
    tdOutcome,      \* what the try block produced for it
    \* ---- geocode_location on its own (ollam.py 92-108)
    geoInput,       \* [name, resp]: the location name and the HTTP answer
    geoOutcome,     \* what geocode_location produced for it
    \* ---- generate_itinerary (ollam.py 110-259)
    gpc,            \* position inside generate_itinerary
    args,           \* [destination, duration, interests, additional_info]
    modelContent,   \* the content the model returned
    itinerary,      \* the validated Itinerary object, mutated during enrichment
    cursor,         \* [d, a]: the day and activity the loops are at
    geoCalls,       \* every geocode_location call made: [query, resp]
    pulls,          \* number of ollama.pull calls performed in this process
    genResult,      \* outcome of generate_itinerary
    \* ---- server endpoint (server.py 24-37)
    rpc,            \* per request: [pc, request], pc "idle", "reddit", "generating", "done"
    running,        \* the request whose synchronous generate_itinerary holds the loop, or 0
    \* ---- RedditSummarizer.process_search_and_summarize (reddit_scraper.py 71-93)
    spc,            \* position inside process_search_and_summarize
    posts,          \* the fetched posts: sequence of [selftext, title]
    postIdx,        \* index of the next post of the for loop
    all_summaries,  \* the LocationSummary objects appended so far
    postLog,        \* per processed post: the model's answer, NoCall when it was not asked
    sumResult       \* outcome of process_search_and_summarize

chatVars == <<history, chatRequests, chatResult, extractResult>>
tdVars == <<tdResponse, tdOutcome>>
geoVars == <<geoInput, geoOutcome>>
genVars == <<gpc, args, modelContent, itinerary, cursor, geoCalls, pulls, genResult>>
srvVars == <<rpc, running>>
sumVars == <<spc, posts, postIdx, all_summaries, postLog, sumResult>>
vars == <<chatVars, tdVars, geoVars, genVars, srvVars, sumVars>>

\* ------------------------------------------------------------------------
\* Bounds of the model.
MaxChats == 3       \* Chatbot.chat calls in one session
MaxDays == 2        \* days in a model-produced itinerary, and the requested duration
MaxActs == 3        \* activities in a model-produced itinerary, over all its days
MaxPosts == 3       \* posts the Reddit search returns
MaxRequests == 2    \* itinerary requests one server process receives

\* ------------------------------------------------------------------------
\* Python values shared by the components.

None == [t |-> "none"]
NoCall == [kind |-> "none"]
Return(v) == [kind |-> "return", value |-> v]
Raise(type, msg) == [kind |-> "raise", exc |-> [type |-> type, msg |-> msg]]
\* raise RuntimeError(f"<prefix>: {e}")
Wrap(prefix, exc) == Raise("RuntimeError", prefix \o ": " \o exc.msg)

\* JSON values as json.loads / pydantic see them.
JStr(s) == [t |-> "str", v |-> s]
JInt(n) == [t |-> "int", v |-> n]
JList(s) == [t |-> "list", v |-> s]
JObj(r) == [t |-> "obj", v |-> r]
\* A text that is not JSON at all.
NotJson(s) == [t |-> "text", v |-> s]

\* "\n".join(seq)
RECURSIVE JoinLines(_)
JoinLines(seq) ==
    IF seq = <<>> THEN ""
    ELSE IF Len(seq) = 1 THEN seq[1]
    ELSE seq[1] \o "\n" \o JoinLines(Tail(seq))

\* ------------------------------------------------------------------------
\* The ollama.chat answers a Chatbot can get: the call raises, the response
\* lacks ['message'], or it carries a content.
ChatReplies == {"Where would you like to go?", "How many days?"}
ChatResponses ==
    {[kind |-> "raise", msg |-> "connection refused"],
     [kind |-> "nomessage"]}
    \cup {[kind |-> "ok", content |-> c] : c \in ChatReplies}
UserMessages == {"Rome please", "3 days of food"}

\* response['message']['content'] (ollam.py 50 and 84)
ResponseContent(resp) ==
    IF resp.kind = "raise" THEN Raise("ResponseError", resp.msg)
    ELSE IF resp.kind = "nomessage" THEN Raise("KeyError", "'message'")
    ELSE Return(resp.content)

\* Chatbot.add_message
add_message(h, role, content) == Append(h, [role |-> role, content |-> content])

\* chat with the user turn taken back when the model call fails.
chat_rollback(user_message, resp) ==
    LET h1 == add_message(history, "user", user_message)
        got == ResponseContent(resp)
    IN  /\ Len(chatRequests) < MaxChats
        /\ chatRequests' = Append(chatRequests, [messages |-> h1])
        /\ IF got.kind = "return"
           THEN /\ history' = add_message(h1, "assistant", got.value)
                /\ chatResult' = [before |-> history, user |-> user_message,
                                  out |-> Return(got.value)]
           ELSE /\ history' = history
                /\ chatResult' = [before |-> history, user |-> user_message,
                                  out |-> Wrap("Error in chatbot interaction", got.exc)]
        /\ UNCHANGED <<extractResult, tdVars, geoVars, genVars, srvVars, sumVars>>

\* Chatbot.chat(user_message), the model answering resp.
chat(user_message, resp) ==
    LET h1 == add_message(history, "user", user_message)
        got == ResponseContent(resp)
    IN  /\ Len(chatRequests) < MaxChats
        /\ chatRequests' = Append(chatRequests, [messages |-> h1])
        /\ IF got.kind = "return"
           THEN /\ history' = add_message(h1, "assistant", got.value)
                /\ chatResult' = [before |-> history, user |-> user_message,
                                  out |-> Return(got.value)]
           ELSE /\ history' = h1
                /\ chatResult' = [before |-> history, user |-> user_message,
                                  out |-> Wrap("Error in chatbot interaction", got.exc)]
        /\ UNCHANGED <<extractResult, tdVars, geoVars, genVars, srvVars, sumVars>>

\* ------------------------------------------------------------------------
\* str.format.  A template is the sequence of its literal texts and its
\* replacement fields {name...}; formatting substitutes the fields from the
\* keyword arguments, left to right, and raises KeyError at the first field
\* whose name is no keyword argument.
Lit(s) == [seg |-> "lit", text |-> s]
Field(name) == [seg |-> "field", name |-> name]

RECURSIVE StrFormat(_, _)
StrFormat(template, kwargs) ==
    IF template = <<>> THEN Return("")
    ELSE LET head == template[1]
             rest == StrFormat(Tail(template), kwargs)
         IN  IF head.seg = "field" /\ head.name \notin DOMAIN kwargs
             THEN Raise("KeyError", "'" \o head.name \o "'")
             ELSE IF rest.kind = "raise" THEN rest
             ELSE Return((IF head.seg = "lit" THEN head.text ELSE kwargs[head.name])
                         \o rest.value)

\* The prompt of extract_trip_details (ollam.py 58-73): a plain string, so
\* both {conversation} and the braces of the JSON sample are replacement
\* fields; the sample's field name is the text up to its first colon.
ExtractPrompt ==
    <<Lit("Based on the following conversation, identify and return the trip details. The conversation:\n"),
      Field("conversation"),
      Lit("\nProvide the trip details in the following JSON format:\n"),
      Field("\n \"destination\""),
      Lit("\n")>>

\* The answers ollama.chat can give to the extraction request.  A content is
\* a text that is not JSON, or a JSON object with any of the three fields
\* missing, of the wrong type, or well typed.
ExtractDestinations == {JStr("Rome"), JInt(7)}
ExtractDurations == {JInt(-1), JInt(0), JInt(1), JInt(3), JStr("three")}
ExtractInterests ==
    {JList(<<>>), JList(<<JStr("food")>>), JList(<<JStr("food"), JStr("art")>>),
     JList(<<JInt(1)>>), JStr("food")}
ExtractObjects ==
    {[destination |-> d, duration |-> n, interests |-> i] :
        d \in ExtractDestinations, n \in ExtractDurations, i \in ExtractInterests}
    \cup {[duration |-> n, interests |-> i] :
        n \in ExtractDurations, i \in ExtractInterests}
    \cup {[destination |-> d, interests |-> i] :
        d \in ExtractDestinations, i \in ExtractInterests}
    \cup {[destination |-> d, duration |-> n] :
        d \in ExtractDestinations, n \in ExtractDurations}
ExtractResponses ==
    {[kind |-> "raise", msg |-> "connection refused"],
     [kind |-> "nomessage"],
     [kind |-> "ok", content |-> NotJson("Sure! The trip is to Rome.")],
     [kind |-> "ok", content |-> JList(<<>>)]}
    \cup {[kind |-> "ok", content |-> JObj(o)] : o \in ExtractObjects}

\* Whether a JSON value is a list of strings.
IsStrList(j) == j.t = "list" /\ \A k \in 1..Len(j.v) : j.v[k].t = "str"

\* class TripDetails(BaseModel): destination: str, duration: int,
\* interests: List[str]; every field required, no further constraint.
TripDetailsFieldsOk(o) ==
    /\ "destination" \in DOMAIN o /\ o.destination.t = "str"
    /\ "duration" \in DOMAIN o /\ o.duration.t = "int"
    /\ "interests" \in DOMAIN o /\ IsStrList(o.interests)

\* TripDetails.parse_raw(content)
TripDetails_parse_raw(content) ==
    IF content.t = "text" THEN Raise("ValidationError", "Invalid JSON")
    ELSE IF content.t # "obj" THEN Raise("ValidationError", "Input should be an object")
    ELSE IF ~TripDetailsFieldsOk(content.v)
    THEN Raise("ValidationError", "validation errors for TripDetails")
    ELSE Return([destination |-> content.v.destination.v,
                 duration |-> content.v.duration.v,
                 interests |-> [k \in 1..Len(content.v.interests.v) |->
                                    content.v.interests.v[k].v]])

\* The try block of extract_trip_details (ollam.py 78-89), the model
\* answering resp to the one request it sends.
ExtractTry(resp) ==
    LET got == ResponseContent(resp)
        parsed == TripDetails_parse_raw(got.value)
    IN  IF got.kind = "raise" THEN Wrap("Error extracting trip details", got.exc)
        ELSE IF parsed.kind = "raise"
        THEN Wrap("Error extracting trip details", parsed.exc)
        ELSE parsed

\* Chatbot.extract_trip_details(): the transcript, the formatted prompt
\* (outside the try block: its exception propagates as it is), then the try
\* block.  The history is only read.
extract_trip_details(resp) ==
    LET conversation_text == JoinLines([k \in 1..Len(history) |-> history[k].content])
        formatted_prompt == StrFormat(ExtractPrompt, [conversation |-> conversation_text])
    IN  /\ extractResult' =
              IF formatted_prompt.kind = "raise"
              THEN [historyAt |-> history, requests |-> <<>>, out |-> formatted_prompt]
              ELSE [historyAt |-> history,
                    requests |-> <<[messages |->
                        <<[role |-> "user", content |-> formatted_prompt.value]>>]>>,
                    out |-> ExtractTry(resp)]
        /\ UNCHANGED <<history, chatRequests, chatResult,
                       tdVars, geoVars, genVars, srvVars, sumVars>>

\* The try block applied to one model response.
ApplyExtractTry ==
    /\ tdOutcome = NoCall
    /\ tdOutcome' = ExtractTry(tdResponse)
    /\ UNCHANGED <<tdResponse, chatVars, geoVars, genVars, srvVars, sumVars>>

\* ------------------------------------------------------------------------
\* geocode_location (ollam.py 92-108).

\* The answers of the Geoapify service: requests.get raises, or a response
\* with a status code and a body.  A body is a text that is not JSON or a
\* JSON object, with or without "features"; a feature has a geometry with
\* coordinates [longitude, latitude], or lacks one.
Feature(coords) == [geometry |-> [coordinates |-> coords]]
NoGeometry == [properties |-> "x"]
CoordsA == <<12, 41>>
CoordsB == <<2, 48>>
GeoBodies ==
    {NotJson("<html>Bad Gateway</html>"),
     JObj([type |-> "FeatureCollection"]),
     JObj([features |-> <<>>]),
     JObj([features |-> <<Feature(CoordsA)>>]),
     JObj([features |-> <<Feature(CoordsB), Feature(CoordsA)>>]),
     JObj([features |-> <<NoGeometry>>]),
     JObj([features |-> <<Feature(<<12>>)>>])}
GeoStatuses == {200, 404, 500}
GeoResponses ==
    {[kind |-> "raise", msg |-> "Connection timed out"]}
    \cup {[kind |-> "http", status |-> st, body |-> b] : st \in GeoStatuses, b \in GeoBodies}
GeoNames == {"Colosseum Rome", "Trevi Fountain Rome", "Nowhere"}

\* str(response.status_code) for the status codes of the model
StatusText(st) ==
    CASE st = 200 -> "200" [] st = 404 -> "404" [] st = 500 -> "500" [] OTHER -> "?"

\* data.get("features"): the features when the key is there and the list is
\* not empty (a truthy value), else nothing.
HasFeatures(data) == "features" \in DOMAIN data /\ data.features # <<>>

\* The body of the try block (ollam.py 97-106): what it returns or raises
\* before the except clause sees it.
GeocodeTry(location_name, resp) ==
    IF resp.kind = "raise" THEN Raise("ConnectionError", resp.msg)
    ELSE IF resp.status # 200
    THEN Raise("RuntimeError", "Geoapify API error: " \o StatusText(resp.status))
    ELSE IF resp.body.t # "obj" THEN Raise("JSONDecodeError", "Expecting value")
    ELSE IF ~HasFeatures(resp.body.v)
    THEN Raise("ValueError", "No geocoding results found for " \o location_name)
    ELSE LET first == resp.body.v.features[1]
         IN  IF "geometry" \notin DOMAIN first THEN Raise("KeyError", "'geometry'")
             ELSE IF Len(first.geometry.coordinates) < 2
             THEN Raise("IndexError", "list index out of range")
             ELSE Return([longitude |-> first.geometry.coordinates[1],
                          latitude |-> first.geometry.coordinates[2]])

\* geocode_location(location_name), the service answering resp: the try
\* block, and `except Exception` around all of it.
geocode_location(location_name, resp) ==
    LET got == GeocodeTry(location_name, resp)
    IN  IF got.kind = "raise" THEN Wrap("Error during geocoding", got.exc) ELSE got

\* geocode_location applied to one name and one answer.
ApplyGeocode ==
    /\ geoOutcome = NoCall
    /\ geoOutcome' = geocode_location(geoInput.name, geoInput.resp)
    /\ UNCHANGED <<geoInput, chatVars, tdVars, genVars, srvVars, sumVars>>

\* ------------------------------------------------------------------------
\* generate_itinerary (ollam.py 110-259).

\* Field(..., min_length=50) of Activity.description
MinDescriptionLength == 50

LongDescription ==
    "Start the day here and take your time, the place rewards a slow and curious visit."
ShortDescription == "Nice place."
PlaceNames == <<"Colosseum", "Trevi Fountain">>
Num(n) == [t |-> "num", v |-> n]

\* The activity the model writes at place a of a day: the names repeat from
\* day to day, and every second activity comes with coordinates of the
\* model's own.
ModelActivity(a, description) ==
    IF a % 2 = 1
    THEN [location_name |-> PlaceNames[1], description |-> description]
    ELSE [location_name |-> PlaceNames[2], description |-> description,
          longitude |-> Num(99), latitude |-> Num(98)]

RECURSIVE SumSeq(_)
SumSeq(seq) == IF seq = <<>> THEN 0 ELSE seq[1] + SumSeq(Tail(seq))

\* The itinerary objects the model can write: any number of days up to
\* MaxDays, any day numbers, any schedule lengths within MaxActs in all.
ModelItinerary(nums, lens, description) ==
    [destination |-> "Rome",
     trip_duration |-> Len(nums),
     itinerary |-> [d \in 1..Len(nums) |->
        [day |-> nums[d],
         schedule |-> [a \in 1..lens[d] |-> ModelActivity(a, description)]]]]
ModelItineraries ==
    {ModelItinerary(nums, lens, LongDescription) :
        <<nums, lens>> \in UNION {
            {nl \in [1..n -> 1..MaxDays] \X [1..n -> 0..MaxActs] : SumSeq(nl[2]) <= MaxActs}
            : n \in 0..MaxDays}}
GenContents ==
    {NotJson("Here is your itinerary!"),
     JObj([destination |-> "Rome", trip_duration |-> 1]),
     JObj(ModelItinerary(<<1>>, <<1>>, ShortDescription))}
    \cup {JObj(o) : o \in ModelItineraries}
GenResponses ==
    {[kind |-> "raise", msg |-> "model not found"]}
    \cup {[kind |-> "ok", content |-> c] : c \in GenContents}
\* The geocoder's answers during enrichment: two different matches, no
\* match, a failing service.
GenGeoResponses ==
    {[kind |-> "http", status |-> 200, body |-> JObj([features |-> <<Feature(CoordsA)>>])],
     [kind |-> "http", status |-> 200,
      body |-> JObj([features |-> <<Feature(CoordsB), Feature(CoordsA)>>])],
     [kind |-> "http", status |-> 200, body |-> JObj([features |-> <<>>])],
     [kind |-> "http", status |-> 500, body |-> NotJson("<html>Bad Gateway</html>")]}
PullOutcomes == {"ok", "raise"}

\* Activity(**fields): location_name and description required, description
\* at least MinDescriptionLength long, longitude and latitude None by default.
ActivityOk(a) ==
    /\ "location_name" \in DOMAIN a
    /\ "description" \in DOMAIN a
    /\ Len(a.description) >= MinDescriptionLength
Activity(a) ==
    [location_name |-> a.location_name,
     description |-> a.description,
     longitude |-> IF "longitude" \in DOMAIN a THEN a.longitude ELSE None,
     latitude |-> IF "latitude" \in DOMAIN a THEN a.latitude ELSE None]

\* Itinerary.model_validate_json(content): the three fields are required,
\* every day and activity is validated; the number of days and their
\* numbers are not looked at.
ItineraryFieldsOk(o) ==
    /\ {"destination", "trip_duration", "itinerary"} \subseteq DOMAIN o
    /\ \A d \in 1..Len(o.itinerary) :
          \A a \in 1..Len(o.itinerary[d].schedule) :
              ActivityOk(o.itinerary[d].schedule[a])
Itinerary_model_validate_json(content) ==
    IF content.t = "text" THEN Raise("ValidationError", "Invalid JSON")
    ELSE IF ~ItineraryFieldsOk(content.v)
    THEN Raise("ValidationError", "validation errors for Itinerary")
    ELSE Return(
        [destination |-> content.v.destination,
         trip_duration |-> content.v.trip_duration,
         itinerary |-> [d \in 1..Len(content.v.itinerary) |->
            [day |-> content.v.itinerary[d].day,
             schedule |-> [a \in 1..Len(content.v.itinerary[d].schedule) |->
                Activity(content.v.itinerary[d].schedule[a])]]]])

\* The activities in the order the two for loops visit them: <<d, a>>.
RECURSIVE Positions(_, _)
Positions(days, d) ==
    IF d > Len(days) THEN <<>>
    ELSE [a \in 1..Len(days[d].schedule) |-> <<d, a>>] \o Positions(days, d + 1)

\* itinerary.model_dump(): the object as plain dicts and lists.
model_dump(it) ==
    [destination |-> it.destination,
     trip_duration |-> it.trip_duration,
     itinerary |-> [d \in 1..Len(it.itinerary) |->
        [day |-> it.itinerary[d].day,
         schedule |-> [a \in 1..Len(it.itinerary[d].schedule) |->
            [location_name |-> it.itinerary[d].schedule[a].location_name,
             description |-> it.itinerary[d].schedule[a].description,
             longitude |-> it.itinerary[d].schedule[a].longitude,
             latitude |-> it.itinerary[d].schedule[a].latitude]]]]]

\* generate_itinerary ends with `out`: it returns to its caller; when the
\* caller is the endpoint of a request, that request is answered.
GenFinish(out) ==
    /\ genResult' = out
    /\ gpc' = "done"
    /\ rpc' = IF running = 0 THEN rpc ELSE [rpc EXCEPT ![running].pc = "done"]
    /\ running' = 0

\* generate_itinerary(destination, duration, interests, additional_info) is
\* called (the prompt is built, nothing else happens yet).
GenEnter(destination, duration, additional_info) ==
    /\ args' = [destination |-> destination, duration |-> duration,
                interests |-> <<"food", "history">>, additional_info |-> additional_info]
    /\ gpc' = "pull"
    /\ modelContent' = None
    /\ itinerary' = None
    /\ cursor' = 0
    /\ geoCalls' = <<>>
    /\ genResult' = NoCall

\* A direct call of generate_itinerary.
GenStart(destination, duration) ==
    /\ gpc = "idle" /\ running = 0
    /\ GenEnter(destination, duration, "")
    /\ UNCHANGED <<pulls, chatVars, tdVars, geoVars, srvVars, sumVars>>

\* ollama.pull(model_name) (ollam.py 238): performed on every call.
GenPull(outcome) ==
    /\ gpc = "pull"
    /\ pulls' = pulls + 1
    /\ IF outcome = "raise"
       THEN /\ GenFinish(Wrap("Error generating itinerary",
                              [type |-> "ResponseError", msg |-> "pull failed"]))
       ELSE /\ gpc' = "chat"
            /\ UNCHANGED <<genResult, srvVars>>
    /\ UNCHANGED <<args, modelContent, itinerary, cursor, geoCalls,
                   chatVars, tdVars, geoVars, sumVars>>

\* ollama.chat and Itinerary.model_validate_json (ollam.py 241-248); with no
\* activity to enrich the loops are empty and the function returns.
GenChat(resp) ==
    LET got == ResponseContent(resp)
        parsed == Itinerary_model_validate_json(got.value)
    IN  /\ gpc = "chat"
        /\ modelContent' = IF got.kind = "return" THEN got.value ELSE None
        /\ IF got.kind = "raise"
           THEN /\ GenFinish(Wrap("Error generating itinerary", got.exc))
                /\ UNCHANGED <<itinerary, cursor>>
           ELSE IF parsed.kind = "raise"
           THEN /\ GenFinish(Wrap("Error generating itinerary", parsed.exc))
                /\ UNCHANGED <<itinerary, cursor>>
           ELSE /\ itinerary' = parsed.value
                /\ IF Positions(parsed.value.itinerary, 1) = <<>>
                   THEN /\ GenFinish(Return(model_dump(parsed.value)))
                        /\ UNCHANGED cursor
                   ELSE /\ cursor' = 1
                        /\ gpc' = "geocode"
                        /\ UNCHANGED <<genResult, srvVars>>
        /\ UNCHANGED <<args, geoCalls, pulls, chatVars, tdVars, geoVars, sumVars>>

\* The query of one activity (ollam.py 252).
GeoQuery(activity, destination) == activity.location_name \o " " \o destination

\* SetCoords with the two coordinates exchanged.
SetCoords_swapped(activity, coords) ==
    [activity EXCEPT !.longitude = Num(coords.latitude),
                     !.latitude = Num(coords.longitude)]

\* The coordinates an activity gets from the geocoder's result (ollam.py 253-254).
SetCoords(activity, coords) ==
    [activity EXCEPT !.longitude = Num(coords.longitude),
                     !.latitude = Num(coords.latitude)]

\* GenGeocode with a failed lookup leaving the activity as it is and the
\* loops going on.
GenGeocode_lenient(resp) ==
    LET pos == Positions(itinerary.itinerary, 1)
        d == pos[cursor][1]
        a == pos[cursor][2]
        activity == itinerary.itinerary[d].schedule[a]
        query == GeoQuery(activity, args.destination)
        coords == geocode_location(query, resp)
        enriched == IF coords.kind = "raise" THEN itinerary
                    ELSE [itinerary EXCEPT
                            !.itinerary[d].schedule[a] = SetCoords(activity, coords.value)]
    IN  /\ gpc = "geocode"
        /\ geoCalls' = Append(geoCalls, [query |-> query, resp |-> resp])
        /\ itinerary' = enriched
        /\ IF cursor = Len(pos)
           THEN /\ GenFinish(Return(model_dump(enriched)))
                /\ UNCHANGED cursor
           ELSE /\ cursor' = cursor + 1
                /\ UNCHANGED <<gpc, genResult, srvVars>>
        /\ UNCHANGED <<args, modelContent, pulls, chatVars, tdVars, geoVars, sumVars>>

\* One turn of the enrichment loops (ollam.py 250-254), the service
\* answering resp; after the last activity the function returns (256).
GenGeocode(resp) ==
    LET pos == Positions(itinerary.itinerary, 1)
        d == pos[cursor][1]
        a == pos[cursor][2]
        activity == itinerary.itinerary[d].schedule[a]
        query == GeoQuery(activity, args.destination)
        coords == geocode_location(query, resp)
        enriched == [itinerary EXCEPT
                        !.itinerary[d].schedule[a] = SetCoords(activity, coords.value)]
    IN  /\ gpc = "geocode"
        /\ geoCalls' = Append(geoCalls, [query |-> query, resp |-> resp])
        /\ IF coords.kind = "raise"
           THEN /\ GenFinish(Wrap("Error generating itinerary", coords.exc))
                /\ UNCHANGED <<itinerary, cursor>>
           ELSE /\ itinerary' = enriched
                /\ IF cursor = Len(pos)
                   THEN /\ GenFinish(Return(model_dump(enriched)))
                        /\ UNCHANGED cursor
                   ELSE /\ cursor' = cursor + 1
                        /\ UNCHANGED <<gpc, genResult, srvVars>>
        /\ UNCHANGED <<args, modelContent, pulls, chatVars, tdVars, geoVars, sumVars>>

\* ------------------------------------------------------------------------
\* The /generate-itinerary/ endpoint (server.py 24-37) and
\* process_reddit_and_generate_itinerary (ollam.py 271-278).  Requests are
\* coroutines on one event loop: they interleave at the awaits of the Reddit
\* digest, and generate_itinerary, which is synchronous, runs with every
\* other request held.

Requests == 1..MaxRequests
ServerBodies == {[destination |-> "Rome", duration |-> 1], [destination |-> "Rome", duration |-> 2]}
ServerDigests ==
    {[kind |-> "raise", msg |-> "reddit unavailable"],
     [kind |-> "ok", digest |-> ""],
     [kind |-> "ok", digest |-> "- Trastevere: Lively quarter with small trattorias"]}
ServerResponses ==
    {[kind |-> "raise", msg |-> "model not found"],
     [kind |-> "ok", content |-> JObj(ModelItinerary(<<1>>, <<1>>, LongDescription))]}
ServerGeoResponses ==
    {[kind |-> "http", status |-> 200, body |-> JObj([features |-> <<Feature(CoordsA)>>])],
     [kind |-> "http", status |-> 200, body |-> JObj([features |-> <<>>])]}

\* A request arrives: the endpoint awaits the Reddit digest.
Receive(r, body) ==
    /\ running = 0
    /\ rpc[r].pc = "idle"
    /\ rpc' = [rpc EXCEPT ![r] = [pc |-> "reddit", request |-> body]]
    /\ UNCHANGED <<running, chatVars, tdVars, geoVars, genVars, sumVars>>

\* The awaited digest is there: a failure becomes the HTTP 500 answer
\* (server.py 36-37), a digest goes into generate_itinerary (ollam.py 278).
RedditDone(r, got) ==
    /\ running = 0
    /\ rpc[r].pc = "reddit"
    /\ IF got.kind = "raise"
       THEN /\ rpc' = [rpc EXCEPT ![r].pc = "done"]
            /\ UNCHANGED <<running, genVars>>
       ELSE /\ rpc' = [rpc EXCEPT ![r].pc = "generating"]
            /\ running' = r
            /\ GenEnter(rpc[r].request.destination, rpc[r].request.duration, got.digest)
            /\ UNCHANGED pulls
    /\ UNCHANGED <<chatVars, tdVars, geoVars, sumVars>>

\* ------------------------------------------------------------------------
\* RedditSummarizer.process_search_and_summarize (reddit_scraper.py 71-93).

Post(selftext, title) == [selftext |-> selftext, title |-> title]
PostKinds ==
    {Post("", ""),
     Post("", "Rome in three days"),
     Post("We loved Trastevere and the Forum", "Trip report")}
PostLists == UNION {[1..n -> PostKinds] : n \in 0..MaxPosts}
SearchOutcomes ==
    {[kind |-> "raise", msg |-> "reddit unavailable"]}
    \cup {[kind |-> "ok", posts |-> ps] : ps \in PostLists}
\* The answers of the summarizing model.
SummaryContents ==
    {NotJson("Trastevere is lovely"),
     JList(<<>>),
     JObj([location |-> JStr("Trastevere")]),
     JObj([location |-> JInt(3), description |-> JStr("Lively quarter")]),
     JObj([location |-> JStr("Trastevere"), description |-> JStr("Lively quarter")]),
     JObj([location |-> JStr("Forum"), description |-> JStr("Ruins, go early"),
           rating |-> JInt(5)])}
SummaryResponses ==
    {[kind |-> "raise", msg |-> "connection refused"],
     [kind |-> "nomessage"]}
    \cup {[kind |-> "ok", content |-> c] : c \in SummaryContents}

\* extract_text_from_reddit_post without the fall back to the title.
extract_text_no_title(post) == post.selftext

\* extract_text_from_reddit_post: the body, else the title.
extract_text_from_reddit_post(post) ==
    IF post.selftext # "" THEN post.selftext ELSE post.title

\* summarize_text_with_llm: the model's content, any failure wrapped.
summarize_text_with_llm(resp) ==
    LET got == ResponseContent(resp)
    IN  IF got.kind = "raise" THEN Wrap("Error summarizing text", got.exc) ELSE got

\* json.loads then LocationSummary(**summary_dict): both fields required
\* strings, other fields ignored.
LocationSummary(content) ==
    IF content.t = "text" THEN Raise("JSONDecodeError", "Expecting value")
    ELSE IF content.t # "obj"
    THEN Raise("TypeError", "argument after ** must be a mapping")
    ELSE IF ~(/\ "location" \in DOMAIN content.v /\ content.v.location.t = "str"
              /\ "description" \in DOMAIN content.v /\ content.v.description.t = "str")
    THEN Raise("ValidationError", "validation errors for LocationSummary")
    ELSE Return([location |-> content.v.location.v,
                 description |-> content.v.description.v])

\* One post of the loop (reddit_scraper.py 78-88): what it appends, if
\* anything; every exception of the try block is caught and printed.
SummarizePost(post, resp) ==
    LET text == extract_text_from_reddit_post(post)
        summary_json == summarize_text_with_llm(resp)
        summary == LocationSummary(summary_json.value)
    IN  IF text = "" THEN [asked |-> FALSE, add |-> <<>>]
        ELSE IF summary_json.kind = "raise" THEN [asked |-> TRUE, add |-> <<>>]
        ELSE IF summary.kind = "raise" THEN [asked |-> TRUE, add |-> <<>>]
        ELSE [asked |-> TRUE, add |-> <<summary.value>>]

\* The digest (reddit_scraper.py 90-93).
Bullet(item) == "- " \o item.location \o ": " \o item.description
combined_summaries(summaries) ==
    JoinLines([k \in 1..Len(summaries) |-> Bullet(summaries[k])])

\* The search (reddit_scraper.py 73-76): its failure propagates; with no
\* post the loop is empty and the digest is returned at once.
SumSearch(got) ==
    /\ spc = "search"
    /\ IF got.kind = "raise"
       THEN /\ sumResult' = Raise("RequestException", got.msg)
            /\ spc' = "done"
            /\ UNCHANGED posts
       ELSE /\ posts' = got.posts
            /\ IF got.posts = <<>>
               THEN /\ sumResult' = Return(combined_summaries(<<>>))
                    /\ spc' = "done"
               ELSE /\ spc' = "loop"
                    /\ UNCHANGED sumResult
    /\ UNCHANGED <<postIdx, all_summaries, postLog,
                   chatVars, tdVars, geoVars, genVars, srvVars>>

\* One turn of the loop, the model answering resp when it is asked; after
\* the last post the digest is returned.
SumPost(resp) ==
    LET step == SummarizePost(posts[postIdx], resp)
        summaries == all_summaries \o step.add
    IN  /\ spc = "loop"
        /\ all_summaries' = summaries
        /\ postLog' = Append(postLog, IF step.asked THEN resp ELSE NoCall)
        /\ IF postIdx = Len(posts)
           THEN /\ sumResult' = Return(combined_summaries(summaries))
                /\ spc' = "done"
                /\ UNCHANGED postIdx
           ELSE /\ postIdx' = postIdx + 1
                /\ UNCHANGED <<spc, sumResult>>
        /\ UNCHANGED <<posts, chatVars, tdVars, geoVars, genVars, srvVars>>

\* ------------------------------------------------------------------------
\* Initial states and specifications.

ChatInit ==
    /\ history = <<>>
    /\ chatRequests = <<>>
    /\ chatResult = NoCall
    /\ extractResult = NoCall
TdIdle == tdResponse = None /\ tdOutcome = NoCall
GeoIdle == geoInput = None /\ geoOutcome = NoCall
GenInit ==
    /\ gpc = "idle"
    /\ args = None
    /\ modelContent = None
    /\ itinerary = None
    /\ cursor = 0
    /\ geoCalls = <<>>
    /\ pulls = 0
    /\ genResult = NoCall
SrvInit ==
    /\ rpc = [r \in Requests |-> [pc |-> "idle", request |-> None]]
    /\ running = 0
SumInit ==
    /\ spc = "search"
    /\ posts = <<>>
    /\ postIdx = 1
    /\ all_summaries = <<>>
    /\ postLog = <<>>
    /\ sumResult = NoCall

\* A Chatbot session: chat and extract_trip_details in any order.
InitChat == ChatInit /\ TdIdle /\ GeoIdle /\ GenInit /\ SrvInit /\ SumInit
NextChat ==
    \/ \E m \in UserMessages, resp \in ChatResponses : chat(m, resp)
    \/ \E resp \in ExtractResponses : extract_trip_details(resp)
SpecChat == InitChat /\ [][NextChat]_vars

\* The try block of extract_trip_details on every model response.
InitTd ==
    /\ tdResponse \in ExtractResponses
    /\ tdOutcome = NoCall
    /\ ChatInit /\ GeoIdle /\ GenInit /\ SrvInit /\ SumInit
NextTd == ApplyExtractTry
SpecTd == InitTd /\ [][NextTd]_vars

\* geocode_location on every name and service answer.
InitGeo ==
    /\ geoInput \in [name : GeoNames, resp : GeoResponses]
    /\ geoOutcome = NoCall
    /\ ChatInit /\ TdIdle /\ GenInit /\ SrvInit /\ SumInit
NextGeo == ApplyGeocode
SpecGeo == InitGeo /\ [][NextGeo]_vars

\* One call of generate_itinerary.
InitGen == ChatInit /\ TdIdle /\ GeoIdle /\ GenInit /\ SrvInit /\ SumInit
NextGen ==
    \/ \E duration \in 1..MaxDays : GenStart("Rome", duration)
    \/ \E outcome \in PullOutcomes : GenPull(outcome)
    \/ \E resp \in GenResponses : GenChat(resp)
    \/ \E resp \in GenGeoResponses : GenGeocode(resp)
SpecGen == InitGen /\ [][NextGen]_vars

\* The server process and its requests.
NextServer ==
    \/ \E r \in Requests, body \in ServerBodies : Receive(r, body)
    \/ \E r \in Requests, got \in ServerDigests : RedditDone(r, got)
    \/ \E outcome \in PullOutcomes : GenPull(outcome)
    \/ \E resp \in ServerResponses : GenChat(resp)
    \/ \E resp \in ServerGeoResponses : GenGeocode(resp)
SpecServer == InitGen /\ [][NextServer]_vars

\* One call of process_search_and_summarize.
NextSum ==
    \/ \E got \in SearchOutcomes : SumSearch(got)
    \/ \E resp \in SummaryResponses : SumPost(resp)
SpecSum == InitGen /\ [][NextSum]_vars

\* ------------------------------------------------------------------------
\* The claims.

IsPrefix(a, b) == Len(a) <= Len(b) /\ SubSeq(b, 1, Len(a)) = a
UserTurn(m) == [role |-> "user", content |-> m]
AssistantTurn(m) == [role |-> "assistant", content |-> m]

\* C1: when generate_itinerary returns, the returned itinerary has exactly
\* `duration` days and their day numbers are 1..duration, each once.
C1_DaysMatchDuration ==
    genResult.kind = "return" =>
        /\ Len(genResult.value.itinerary) = args.duration
        /\ {genResult.value.itinerary[d].day : d \in 1..Len(genResult.value.itinerary)}
               = 1..args.duration

\* The model returned a well-formed itinerary whose number of days is not
\* the requested duration.
WrongDayCount ==
    /\ modelContent.t = "obj"
    /\ ItineraryFieldsOk(modelContent.v)
    /\ Len(modelContent.v.itinerary) # args.duration
\* C2: when the model returns JSON whose number of days differs from the
\* requested duration, generate_itinerary fails on validation and no
\* geocoding call is made.
C2_WrongDayCountFails ==
    WrongDayCount =>
        /\ geoCalls = <<>>
        /\ genResult = Raise("RuntimeError",
               "Error generating itinerary: validation errors for Itinerary")

\* The service answered 200 with no match.
IsMiss(resp) ==
    /\ resp.kind = "http" /\ resp.status = 200
    /\ resp.body.t = "obj"
    /\ ("features" \notin DOMAIN resp.body.v \/ resp.body.v.features = <<>>)
\* C3: a lookup with zero matches fails the whole build with the not-found
\* failure (the RuntimeError whose message ends in the geocoder's "No
\* geocoding results found for <query>"), and does so whichever activity
\* it is: no call follows it, no itinerary is returned.
C3_MissFailsBuild ==
    \A k \in 1..Len(geoCalls) :
        IsMiss(geoCalls[k].resp) =>
            /\ k = Len(geoCalls)
            /\ gpc = "done"
            /\ genResult = Raise("RuntimeError",
                   "Error generating itinerary: Error during geocoding: "
                   \o "No geocoding results found for " \o geoCalls[k].query)
\* The lookup of the last activity of a second day misses, after the
\* activities before it were found.
C3_Witness ==
    /\ gpc = "done"
    /\ Len(geoCalls) >= 3
    /\ Len(geoCalls) = Len(Positions(itinerary.itinerary, 1))
    /\ Positions(itinerary.itinerary, 1)[Len(geoCalls)][1] = 2
    /\ IsMiss(geoCalls[Len(geoCalls)].resp)

\* C4: when generate_itinerary returns, the geocoder was called once per
\* activity, in day order then schedule order, with the activity's location
\* name and the destination, and every returned activity carries the
\* coordinates of the first match of its own call, whatever the model wrote.
C4_EveryActivityEnriched ==
    genResult.kind = "return" =>
        LET days == modelContent.v.itinerary
            pos == Positions(days, 1)
        IN  /\ Len(geoCalls) = Len(pos)
            /\ Len(genResult.value.itinerary) = Len(days)
            /\ \A k \in 1..Len(pos) :
                  LET written == days[pos[k][1]].schedule[pos[k][2]]
                      returned == genResult.value.itinerary[pos[k][1]].schedule[pos[k][2]]
                      match == geoCalls[k].resp.body.v.features[1].geometry.coordinates
                  IN  /\ geoCalls[k].query = written.location_name \o " " \o args.destination
                      /\ returned.location_name = written.location_name
                      /\ returned.longitude = Num(match[1])
                      /\ returned.latitude = Num(match[2])
\* Two days, the model's own coordinates on one activity, and the geocoder
\* giving different places to different activities.
C4_Witness ==
    /\ genResult.kind = "return"
    /\ Len(genResult.value.itinerary) = 2
    /\ Len(geoCalls) = 3
    /\ \E d \in 1..2 : \E a \in 1..Len(modelContent.v.itinerary[d].schedule) :
          "longitude" \in DOMAIN modelContent.v.itinerary[d].schedule[a]
    /\ geoCalls[1].resp # geoCalls[2].resp

\* What one step may do to the history, and what a step that is a chat
\* call must do.
ChatStepOk ==
    /\ IsPrefix(history, history')
    /\ chatRequests' # chatRequests =>
          LET sent == chatRequests'[Len(chatRequests')].messages
              out == chatResult'.out
          IN  /\ Len(chatRequests') = Len(chatRequests) + 1
              /\ sent = Append(history, UserTurn(chatResult'.user))
              /\ out.kind \in {"return", "raise"}
              /\ out.kind = "return" => history' = Append(sent, AssistantTurn(out.value))
              /\ out.kind = "raise" => history' = sent
\* C5: every chat call sends the whole history with the new user turn to the
\* model; on success the history is that plus the reply, which is returned;
\* on failure the call raises and the history is that; no call ever removes
\* or changes an earlier turn.
C5_ChatAppendOnly == [][ChatStepOk]_vars
\* A failed call after two answered ones: five turns, the last one the
\* user's.
C5_Witness ==
    /\ Len(chatRequests) = 3
    /\ chatResult.out.kind = "raise"
    /\ Len(history) = 5
    /\ history[5].role = "user"

\* C6: extract_trip_details issues exactly one model request, whose
\* transcript holds the content of every turn of the history in order, and
\* returns the trip details parsed from the reply.
C6_ExtractSendsTranscript ==
    extractResult # NoCall =>
        LET transcript == JoinLines([k \in 1..Len(extractResult.historyAt) |->
                                        extractResult.historyAt[k].content])
        IN  /\ Len(extractResult.requests) = 1
            /\ Len(extractResult.requests[1].messages) = 1
            /\ extractResult.requests[1].messages[1].content =
                   ExtractPrompt[1].text \o transcript \o ExtractPrompt[3].text
                   \o "{" \o ExtractPrompt[4].name \o "}" \o ExtractPrompt[5].text
            /\ extractResult.out.kind = "raise" =>
                   extractResult.out.exc.type = "RuntimeError"

\* Valid trip details: the three fields, a positive duration, some interest.
ValidTripDetails(content) ==
    /\ content.t = "obj"
    /\ TripDetailsFieldsOk(content.v)
    /\ content.v.interests.v # <<>>
    /\ content.v.duration.v > 0
HasText(post) == post.selftext # "" \/ post.title # ""
ValidSummary(resp) ==
    /\ resp.kind = "ok"
    /\ resp.content.t = "obj"
    /\ {"location", "description"} \subseteq DOMAIN resp.content.v
    /\ resp.content.v.location.t = "str"
    /\ resp.content.v.description.t = "str"
RECURSIVE ExpectedBullets(_)
ExpectedBullets(k) ==
    IF k = 0 THEN <<>>
    ELSE ExpectedBullets(k - 1) \o
         (IF HasText(posts[k]) /\ postLog[k] # NoCall /\ ValidSummary(postLog[k])
          THEN <<"- " \o postLog[k].content.v.location.v \o ": "
                 \o postLog[k].content.v.description.v>>
          ELSE <<>>)
\* C8: no post makes process_search_and_summarize raise; the digest is the
\* bullets of the posts that had text and whose answer was a valid
\* LocationSummary, one each, and is empty when there is none.
C8_DigestOfSuccessfulPosts ==
    /\ sumResult.kind = "raise" => posts = <<>> /\ postLog = <<>>
    /\ \A k \in 1..Len(postLog) : HasText(posts[k]) <=> postLog[k] # NoCall
    /\ spc = "done" /\ sumResult.kind = "return" =>
          /\ Len(postLog) = Len(posts)
          /\ sumResult.value = JoinLines(ExpectedBullets(Len(posts)))
          /\ ExpectedBullets(Len(posts)) = <<>> => sumResult.value = ""
\* Three posts: one with a title only that is summarized, one with no text,
\* one whose answer is not valid; the digest is the one bullet.
C8_Witness ==
    /\ spc = "done"
    /\ Len(posts) = 3
    /\ \E i, j, k \in 1..3 :
          /\ posts[i].selftext = "" /\ posts[i].title # "" /\ ValidSummary(postLog[i])
          /\ ~HasText(posts[j])
          /\ postLog[k] # NoCall /\ ~ValidSummary(postLog[k])
    /\ Len(ExpectedBullets(3)) = 1
    /\ sumResult.kind = "return"

\* C9: in one process the model is pulled at most once, over all requests.
C9_PullAtMostOnce == pulls <= 1

\* The two failures as geocode_location raises them: ValueError for no
\* match (ollam.py 104), RuntimeError for the service (ollam.py 106).
NotFoundFailure(out) == out.kind = "raise" /\ out.exc.type = "ValueError"
ServiceFailure(out) == out.kind = "raise" /\ out.exc.type = "RuntimeError"
\* C10: geocode_location fails with the not-found failure exactly when the
\* service answers 200 with no match, and with the service failure exactly
\* when the status is not 200 or the transport fails; the two are failures
\* of different types, which the caller can tell apart.
C10_DistinctFailures ==
    geoOutcome # NoCall =>
        /\ IsMiss(geoInput.resp) <=> NotFoundFailure(geoOutcome)
        /\ (geoInput.resp.kind = "raise" \/ geoInput.resp.status # 200)
               <=> ServiceFailure(geoOutcome)

====
